---------------------------- MODULE Spec2Model ----------------------------
(***************************************************************************)
(* MICP Data Manager: the Excel import pipeline, the LIS/DLIS preview, the *)
(* transactional store and the read endpoints, as state machines.          *)
(*                                                                         *)
(* Text that the program converts (file names, column headers, cell        *)
(* strings, well names) is a sequence of one-character strings, so that    *)
(* strip(), lower(), replace() and Path.suffix are computed, not assumed.  *)
(* Text the program only copies (sheet names, project names, messages) is  *)
(* a plain string.                                                         *)
(***************************************************************************)
EXTENDS Integers, Sequences, FiniteSets, TLC

VARIABLES
    req,        \* per request: the handler's position and local variables
    disk,       \* app/data: <<directory, file name>> -> the file at that path
    dlisio_installed,   \* whether importlib finds the dlisio package
    store,      \* the committed content of app.db: projects, sheets, records
    tx,         \* per request: rows its session has flushed but not committed
    lock,       \* the request whose session holds SQLite's write lock, or 0
    arg,        \* the input of the call under test (function-level specifications)
    ret         \* the value that call returned

vars == <<req, disk, dlisio_installed, store, tx, lock, arg, ret>>

-----------------------------------------------------------------------------
(* Bounds of the model.                                                    *)

MaxReqs == 2
MaxRows == 2
MaxCols == 2
MaxLogFiles == 2

-----------------------------------------------------------------------------
(* Values.  Python's None, pandas' NaN, int and str are tagged records     *)
(* with distinct field names, so that any two of them can be compared.     *)

None == [t |-> "none"]
NaN == [t |-> "nan"]
IntVal(n) == [t |-> "int", n |-> n]
StrVal(s) == [t |-> "str", s |-> s]

Range(f) == {f[i] : i \in DOMAIN f}

SetMax(S) == CHOOSE x \in S : \A y \in S : y <= x

Min2(a, b) == IF a <= b THEN a ELSE b

-----------------------------------------------------------------------------
(* str methods.                                                            *)

UpperAlpha ==
    <<"A","B","C","D","E","F","G","H","I","J","K","L","M",
      "N","O","P","Q","R","S","T","U","V","W","X","Y","Z">>

LowerAlpha ==
    <<"a","b","c","d","e","f","g","h","i","j","k","l","m",
      "n","o","p","q","r","s","t","u","v","w","x","y","z">>

DigitChars == <<"0","1","2","3","4","5","6","7","8","9">>

\* the lowercase letter of each uppercase letter
ToLower == [i \in 1..26 |-> UpperAlpha[i] :> LowerAlpha[i]]

LowerTable ==
    ToLower[1] @@ ToLower[2] @@ ToLower[3] @@ ToLower[4] @@ ToLower[5] @@ ToLower[6]
    @@ ToLower[7] @@ ToLower[8] @@ ToLower[9] @@ ToLower[10] @@ ToLower[11]
    @@ ToLower[12] @@ ToLower[13] @@ ToLower[14] @@ ToLower[15] @@ ToLower[16]
    @@ ToLower[17] @@ ToLower[18] @@ ToLower[19] @@ ToLower[20] @@ ToLower[21]
    @@ ToLower[22] @@ ToLower[23] @@ ToLower[24] @@ ToLower[25] @@ ToLower[26]

LowerChar(c) == IF c \in DOMAIN LowerTable THEN LowerTable[c] ELSE c

\* str.lower()
Lower(s) == [i \in 1..Len(s) |-> LowerChar(s[i])]

\* str.isspace() of one character
IsSpace(c) == c \in {" ", "\t", "\n"}

RECURSIVE LStrip(_)
LStrip(s) ==
    IF s # <<>> /\ IsSpace(Head(s)) THEN LStrip(Tail(s)) ELSE s

RECURSIVE RStrip(_)
RStrip(s) ==
    IF s # <<>> /\ IsSpace(s[Len(s)]) THEN RStrip(SubSeq(s, 1, Len(s) - 1)) ELSE s

\* str.strip()
Strip(s) == RStrip(LStrip(s))

\* str.replace(old, new) for one-character old and new
ReplaceChar(s, old, new) == [i \in 1..Len(s) |-> IF s[i] = old THEN new ELSE s[i]]

\* str(n) of an int
RECURSIVE NatToStr(_)
NatToStr(n) ==
    IF n < 10 THEN <<DigitChars[n + 1]>>
    ELSE NatToStr(n \div 10) \o <<DigitChars[(n % 10) + 1]>>

IntToStr(n) == IF n < 0 THEN <<"-">> \o NatToStr(-n) ELSE NatToStr(n)

IsDigit(c) == \E i \in DOMAIN DigitChars : DigitChars[i] = c

DigitValue(c) == (CHOOSE i \in DOMAIN DigitChars : DigitChars[i] = c) - 1

RECURSIVE DigitsToNat(_)
DigitsToNat(s) ==
    IF s = <<>> THEN 0
    ELSE DigitsToNat(SubSeq(s, 1, Len(s) - 1)) * 10 + DigitValue(s[Len(s)])

\* int(x): [ok, n].  An int is itself; NaN and a string that is not an
\* optionally signed run of digits (after strip) raise ValueError.
PyInt(x) ==
    IF x.t = "int" THEN [ok |-> TRUE, n |-> x.n]
    ELSE IF x.t = "str" THEN
        LET s == Strip(x.s)
            signed == s # <<>> /\ Head(s) \in {"-", "+"}
            digits == IF signed THEN Tail(s) ELSE s
        IN IF digits # <<>> /\ \A i \in DOMAIN digits : IsDigit(digits[i])
           THEN [ok |-> TRUE,
                 n |-> IF signed /\ Head(s) = "-"
                       THEN 0 - DigitsToNat(digits) ELSE DigitsToNat(digits)]
           ELSE [ok |-> FALSE, n |-> 0]
    ELSE [ok |-> FALSE, n |-> 0]

\* a float: mantissa m and number of decimals e, without trailing zeros
FloatVal(m, e) == [t |-> "float", m |-> m, e |-> e]

RECURSIVE StripZeros(_)
StripZeros(s) ==
    IF s # <<>> /\ s[Len(s)] = "0" THEN StripZeros(SubSeq(s, 1, Len(s) - 1)) ELSE s

\* the float with the digits whole before and frac after the decimal point
FloatOfParts(negative, whole, frac) ==
    IF /\ Len(whole) + Len(frac) > 0
       /\ \A i \in DOMAIN whole : IsDigit(whole[i])
       /\ \A i \in DOMAIN frac : IsDigit(frac[i])
    THEN [ok |-> TRUE,
          value |-> FloatVal((IF negative THEN -1 ELSE 1)
                                 * DigitsToNat(whole \o StripZeros(frac)),
                             Len(StripZeros(frac)))]
    ELSE [ok |-> FALSE, value |-> None]

\* the float of an unsigned numeral with its decimal point at position dot
FloatOfUnsigned(negative, body, dot) ==
    IF dot = 0 THEN FloatOfParts(negative, body, <<>>)
    ELSE FloatOfParts(negative, SubSeq(body, 1, dot - 1), SubSeq(body, dot + 1, Len(body)))

\* the position of the first "." in s, 0 when there is none
RECURSIVE DotAt(_)
DotAt(s) ==
    IF s = <<>> THEN 0
    ELSE IF Head(s) = "." THEN 1
    ELSE IF DotAt(Tail(s)) = 0 THEN 0 ELSE 1 + DotAt(Tail(s))

FloatOfSigned(s) ==
    IF s # <<>> /\ Head(s) \in {"-", "+"}
    THEN FloatOfUnsigned(Head(s) = "-", Tail(s), DotAt(Tail(s)))
    ELSE FloatOfUnsigned(FALSE, s, DotAt(s))

\* float(s) of a string: [ok, value].  An optionally signed decimal numeral
\* (after strip) is its value; any other string over the characters used
\* here raises ValueError.
PyFloat(chars) == FloatOfSigned(Strip(chars))

\* pathlib.PurePath.suffix of a file name without directory part
Suffix(name) ==
    LET dots == {i \in DOMAIN name : name[i] = "."}
    IN IF dots = {} THEN <<>>
       ELSE LET i == SetMax(dots)
            IN IF 1 < i /\ i < Len(name) THEN SubSeq(name, i, Len(name)) ELSE <<>>

-----------------------------------------------------------------------------
(* excel_loader.py                                                         *)

H_index == <<"i","n","d","e","x">>
H_row_index == <<"r","o","w","_","i","n","d","e","x">>
H_level_0 == <<"l","e","v","e","l","_","0">>
H_company == <<"c","o","m","p","a","n","y">>
H_field == <<"f","i","e","l","d">>
H_well_name == <<"w","e","l","l","_","n","a","m","e">>
H_well == <<"w","e","l","l">>
H_formation == <<"f","o","r","m","a","t","i","o","n">>
H_formation_name ==
    <<"f","o","r","m","a","t","i","o","n","_","n","a","m","e">>

normalize_header(header) == ReplaceChar(Lower(Strip(header)), " ", "_")

\* DataFrame.empty: no rows or no columns
DfEmpty(df) == Len(df.rows) = 0 \/ Len(df.columns) = 0

\* DataFrame.reset_index(): the old index (0, 1, ...) becomes the first column,
\* named "index", or "level_0" when a column "index" exists; pandas raises
\* ValueError when that name is taken too.
reset_index(df) ==
    LET name == IF H_index \in Range(df.columns) THEN H_level_0 ELSE H_index
    IN IF name \in Range(df.columns)
       THEN [ok |-> FALSE, columns |-> <<>>, rows |-> <<>>]
       ELSE [ok |-> TRUE,
             columns |-> <<name>> \o df.columns,
             rows |-> [k \in 1..Len(df.rows) |-> <<IntVal(k - 1)>> \o df.rows[k]]]

\* DataFrame.rename(columns={"index": "row_index"})
rename_index(columns) ==
    [i \in 1..Len(columns) |-> IF columns[i] = H_index THEN H_row_index ELSE columns[i]]

\* Series.to_dict(): of several columns with one label the last one wins
to_dict(columns, row) ==
    [c \in Range(columns) |-> row[SetMax({i \in DOMAIN columns : columns[i] = c})]]

\* dict.get(key)
DictGet(d, key) == IF key \in DOMAIN d THEN d[key] ELSE None

\* _clean_row: drops the NaN cells.  Unboxing a numpy scalar (value.item())
\* leaves the value as it is modelled.
clean_row(row) == [k \in {c \in DOMAIN row : row[c].t # "nan"} |-> row[k]]

\* str(value) of a cell
PyStr(value) == IF value.t = "str" THEN value.s ELSE IntToStr(value.n)

RECURSIVE first_non_null(_, _)
first_non_null(row, keys) ==
    IF keys = <<>> THEN None
    ELSE LET value == DictGet(row, Head(keys))
         IN IF value.t = "str" /\ Strip(value.s) # <<>>
            THEN StrVal(Strip(value.s))
            ELSE IF value.t # "none" /\ value.t # "nan"
                 THEN StrVal(PyStr(value))
                 ELSE first_non_null(row, Tail(keys))

\* the body of load_excel's loop over df.iterrows(), for one row:
\* [ok, row]; int() of the popped "row_index" may raise ValueError
load_row(columns, row) ==
    LET row_dict == to_dict(columns, row)
        popped == PyInt(row_dict[H_row_index])
        rest == [k \in DOMAIN row_dict \ {H_row_index} |-> row_dict[k]]
        cleaned == clean_row(rest)
    IN [ok |-> popped.ok,
        row |-> [row_index |-> popped.n,
                 company |-> first_non_null(cleaned, <<H_company>>),
                 field |-> first_non_null(cleaned, <<H_field>>),
                 well_name |-> first_non_null(cleaned, <<H_well_name, H_well>>),
                 formation |-> first_non_null(cleaned, <<H_formation, H_formation_name>>),
                 data |-> cleaned]]

\* the body of load_excel's loop over sheet_names, for one worksheet:
\* [ok, rows]
load_sheet(df) ==
    IF DfEmpty(df) THEN [ok |-> TRUE, rows |-> <<>>]
    ELSE LET normalized ==
                 [columns |-> [i \in 1..Len(df.columns) |-> normalize_header(df.columns[i])],
                  rows |-> df.rows]
             indexed == reset_index(normalized)
             columns == rename_index(indexed.columns)
             loaded == [k \in 1..Len(indexed.rows) |-> load_row(columns, indexed.rows[k])]
         IN IF ~indexed.ok \/ \E k \in DOMAIN loaded : ~loaded[k].ok
            THEN [ok |-> FALSE, rows |-> <<>>]
            ELSE [ok |-> TRUE, rows |-> [k \in DOMAIN loaded |-> loaded[k].row]]

\* load_excel, lines 23-48, on a workbook that pd.ExcelFile opened.  The dict
\* it returns is the sequence of its (sheet_name, rows) items in insertion
\* order.
load_sheets(content) ==
    LET parsed == [i \in 1..Len(content.sheets) |-> load_sheet(content.sheets[i])]
    IN IF \E i \in DOMAIN parsed : ~parsed[i].ok
       THEN [t |-> "load_excel", ok |-> FALSE, exc |-> "ValueError",
             msg |-> <<>>, sheets |-> <<>>]
       ELSE [t |-> "load_excel", ok |-> TRUE, exc |-> "", msg |-> <<>>,
             sheets |-> [i \in DOMAIN parsed |->
                            [name |-> content.sheets[i].name,
                             rows |-> parsed[i].rows]]]

\* load_excel without the try of lines 18-21: pandas' exception as it is
load_excel_unwrapped(content) ==
    IF ~content.readable
    THEN [t |-> "load_excel", ok |-> FALSE, exc |-> "BadZipFile",
          msg |-> <<content.cause>>, sheets |-> <<>>]
    ELSE load_sheets(content)

\* load_excel(path) on the content found at path
load_excel(content) ==
    IF ~content.readable
    THEN [t |-> "load_excel", ok |-> FALSE, exc |-> "ExcelIngestionError",
          msg |-> <<"Failed to read Excel file: ", content.cause>>, sheets |-> <<>>]
    ELSE load_sheets(content)

Workbook(sheets) == [readable |-> TRUE, cause |-> "", sheets |-> sheets]
Unreadable(cause) == [readable |-> FALSE, cause |-> cause, sheets |-> <<>>]

-----------------------------------------------------------------------------
(* log_loader.py                                                           *)
(*                                                                         *)
(* A log file on disk is what the two tiers can get out of it:             *)
(*   load_raises  the exception of dlisio's loader.load(path), "" if none  *)
(*   files        the logical files dlisio yields, each with the names of  *)
(*                its objects(), its curves(), the attributes of its well  *)
(*                and the exception that reading it raises, "" if none     *)
(*   text         the matches of the heuristic tier's regular expressions  *)
(*                in the decoded bytes                                     *)

Ext_lis == <<".","l","i","s">>
Ext_dlis == <<".","d","l","i","s">>

SUPPORTED_EXTENSIONS == {Ext_lis, Ext_dlis}

LogFormat(suffix) == IF suffix = Ext_lis THEN "LIS" ELSE "DLIS"

\* a note is the sequence of the pieces its text is formatted from
NoteDlisio == <<"Parsed using dlisio.">>
NoteHeuristic == <<"Parsed using heuristic text search. Results may be approximate.">>
NoteNotInstalled ==
    <<"dlisio is not installed. Falling back to heuristic text parsing.">>
NoteFailed(exc) == <<"dlisio parsing failed (", exc, "). Using heuristic parser instead.">>

NotFound == <<"N","o","t"," ","f","o","u","n","d">>

\* _safe_float: float(value), or None when float() raises TypeError (None)
\* or ValueError (a string that is no numeral)
safe_float(value) ==
    IF value.t \in {"int", "float"} THEN value
    ELSE IF value.t = "str" THEN PyFloat(value.s).value
    ELSE None

RECURSIVE unique_preserve_from(_, _, _)
unique_preserve_from(items, seen, result) ==
    IF items = <<>> THEN result
    ELSE LET key == Strip(Head(items))
         IN IF key # <<>> /\ Lower(key) \notin seen
            THEN unique_preserve_from(Tail(items), seen \cup {Lower(key)},
                                      Append(result, key))
            ELSE unique_preserve_from(Tail(items), seen, result)

\* _unique_preserve
unique_preserve(items) == unique_preserve_from(items, {}, <<>>)

StripAll(items) == [i \in 1..Len(items) |-> Strip(items[i])]

\* the accumulators of _load_with_dlisio after one curve of curves()
dlisio_curve(acc, curve) ==
    LET curve_min == safe_float(curve.first)
        curve_max == safe_float(curve.last)
        has_data == curve.first.t # "none"
    IN [acc EXCEPT
          !.curve_names = Append(@, Strip(curve.name)),
          !.depth_unit = IF @ = None THEN curve.dimension ELSE @,
          !.depth_min = IF has_data /\ curve_min # None
                           /\ (@ = None \/ curve_min.n < @.n)
                        THEN curve_min ELSE @,
          !.depth_max = IF has_data /\ curve_max # None
                           /\ (@ = None \/ curve_max.n > @.n)
                        THEN curve_max ELSE @]

RECURSIVE dlisio_curves(_, _)
dlisio_curves(acc, curves) ==
    IF curves = <<>> THEN acc
    ELSE dlisio_curves(dlisio_curve(acc, Head(curves)), Tail(curves))

\* the accumulators of _load_with_dlisio after one logical file
dlisio_file(acc, log_file) ==
    LET named == [acc EXCEPT !.well_names = @ \o StripAll(log_file.objects)]
        curved == dlisio_curves(named, log_file.curves)
    IN [curved EXCEPT !.well_names = @ \o StripAll(log_file.well)]

\* _load_with_dlisio with the exception of a logical file swallowed
RECURSIVE dlisio_files_skip_failed(_, _)
dlisio_files_skip_failed(acc, files) ==
    IF files = <<>> THEN acc
    ELSE dlisio_files_skip_failed(dlisio_file(acc, Head(files)), Tail(files))

RECURSIVE dlisio_files(_, _)
dlisio_files(acc, files) ==
    IF files = <<>> \/ acc.exc # "" THEN acc
    ELSE IF Head(files).raises # ""
         THEN [dlisio_file(acc, Head(files)) EXCEPT !.exc = Head(files).raises]
         ELSE dlisio_files(dlisio_file(acc, Head(files)), Tail(files))

\* WellLogSummary
Summary(file_name, log_format, well_names, curve_names, depth_min, depth_max, depth_unit, notes) ==
    [file_name |-> file_name, log_format |-> log_format, well_names |-> well_names,
     curve_names |-> curve_names, depth_min |-> depth_min, depth_max |-> depth_max,
     depth_unit |-> depth_unit, notes |-> notes]

NoSummary == Summary(<<>>, "", <<>>, <<>>, None, None, None, <<>>)

\* _load_with_dlisio: [exc, summary]; exc is "ImportError" when the package
\* is not installed, the parser's exception when it raises, "" on success.
\* acc holds the function's locals, which an exception discards.
load_with_dlisio(file_name, content, log_format, installed) ==
    IF ~installed THEN [exc |-> "ImportError", summary |-> NoSummary]
    ELSE IF content.load_raises # ""
    THEN [exc |-> content.load_raises, summary |-> NoSummary]
    ELSE LET acc == dlisio_files(
                       [well_names |-> <<>>, curve_names |-> <<>>, depth_min |-> None,
                        depth_max |-> None, depth_unit |-> None, exc |-> ""],
                       content.files)
         IN IF acc.exc # "" THEN [exc |-> acc.exc, summary |-> NoSummary]
            ELSE [exc |-> "",
                  summary |-> Summary(file_name, log_format,
                                      unique_preserve(acc.well_names),
                                      unique_preserve(acc.curve_names),
                                      acc.depth_min, acc.depth_max, acc.depth_unit,
                                      <<NoteDlisio>>)]

\* _extract_well_names: the candidates of the first pattern over the whole
\* text, then those of the second; text.wells1 and text.wells2 are the
\* finditer matches of each, as [pos, name] in order of position.
extract_well_names(text) ==
    LET names == [i \in 1..Len(text.wells1) |-> text.wells1[i].name]
                 \o [i \in 1..Len(text.wells2) |-> text.wells2[i].name]
        candidates == StripAll(names)
    IN unique_preserve(SelectSeq(candidates, LAMBDA c : c # <<>>))

\* _extract_curve_names: text.curves are the tokens of the candidate lines
\* that match the mnemonic pattern, in order
extract_curve_names(text) == unique_preserve(text.curves)

\* _search_first_float: found[i] is the number the i-th pattern captures
\* at its first match, or None
RECURSIVE search_first_float(_)
search_first_float(found) ==
    IF found = <<>> THEN None
    ELSE IF Head(found) # None THEN safe_float(Head(found))
    ELSE search_first_float(Tail(found))

\* _extract_depths taking from the combined pattern whichever bound the
\* explicit patterns left null
extract_depths_range_fills_missing(text) ==
    LET depth_min == search_first_float(text.starts)
        depth_max == search_first_float(text.ends)
    IN IF text.range # <<>>
       THEN <<IF depth_min = None THEN safe_float(text.range[1]) ELSE depth_min,
              IF depth_max = None THEN safe_float(text.range[2]) ELSE depth_max>>
       ELSE <<depth_min, depth_max>>

\* _extract_depths: text.range is the pair the combined pattern captures
extract_depths(text) ==
    LET depth_min == search_first_float(text.starts)
        depth_max == search_first_float(text.ends)
    IN IF depth_min = None /\ depth_max = None /\ text.range # <<>>
       THEN <<safe_float(text.range[1]), safe_float(text.range[2])>>
       ELSE <<depth_min, depth_max>>

\* _load_with_heuristics with its notes left empty
load_with_heuristics_no_note(file_name, content, log_format) ==
    LET depths == extract_depths(content.text)
    IN Summary(file_name, log_format,
               IF extract_well_names(content.text) # <<>>
               THEN extract_well_names(content.text) ELSE <<NotFound>>,
               extract_curve_names(content.text), depths[1], depths[2], None, <<>>)

\* _load_with_heuristics
load_with_heuristics(file_name, content, log_format) ==
    LET well_names == extract_well_names(content.text)
        curve_names == extract_curve_names(content.text)
        depths == extract_depths(content.text)
    IN Summary(file_name, log_format,
               IF well_names # <<>> THEN well_names ELSE <<NotFound>>,
               curve_names, depths[1], depths[2], None, <<NoteHeuristic>>)

LoadResult(ok, exc, summary, tiers) ==
    [t |-> "load_summary", ok |-> ok, exc |-> exc, summary |-> summary, tiers |-> tiers]

\* load_summary(path) with the content found at path (None: no such file).
\* tiers records the tiers that were called, in order.
load_summary(file_name, found, installed) ==
    LET suffix == Lower(Suffix(file_name))
    IN IF suffix \notin SUPPORTED_EXTENSIONS
       THEN LoadResult(FALSE, "WellLogError", NoSummary, <<>>)
       ELSE LET log_format == LogFormat(suffix)
                content == IF found = None
                           THEN [load_raises |-> "FileNotFoundError", files |-> <<>>,
                                 text |-> <<>>]
                           ELSE found
                structured == load_with_dlisio(file_name, content, log_format, installed)
            IN IF structured.exc = ""
               THEN LoadResult(TRUE, "", structured.summary, <<"dlisio">>)
               ELSE IF found = None
               THEN LoadResult(FALSE, "FileNotFoundError", NoSummary,
                               <<"dlisio", "heuristics">>)
               ELSE LET notes == IF structured.exc = "ImportError"
                                 THEN <<NoteNotInstalled>>
                                 ELSE <<NoteFailed(structured.exc)>>
                        summary == load_with_heuristics(file_name, content, log_format)
                    IN LoadResult(TRUE, "",
                                  [summary EXCEPT !.notes = @ \o notes],
                                  <<"dlisio", "heuristics">>)

-----------------------------------------------------------------------------
(* models.py, crud.py, database.py: the store and a session on it.         *)
(*                                                                         *)
(* A session's flushed rows (t.projects, t.sheets, t.records) live in its  *)
(* SQLite transaction, invisible to the others until commit; t.pending are *)
(* the objects added to the session and not flushed yet.                   *)

EmptyStore == [projects |-> {}, sheets |-> {}, records |-> {}]

EmptyTx == [projects |-> {}, sheets |-> {}, records |-> {}, pending |-> <<>>]

\* the rowid SQLite gives the next row of a table
NextId(rows) == IF rows = {} THEN 1 ELSE SetMax({row.id : row \in rows}) + 1

\* Session.flush(): INSERT the pending records, in the order they were added
flush(st, t) ==
    LET base == NextId(st.records \cup t.records)
    IN [t EXCEPT
          !.records = @ \cup {[t.pending[i] EXCEPT !.id = base + i - 1] :
                                 i \in 1..Len(t.pending)},
          !.pending = <<>>]

\* models.Project.name without unique=True
NameNeverTaken(st, t, name) == FALSE

\* models.Project.name is unique=True: the INSERT raises IntegrityError
\* when a visible project has the name
NameTaken(st, t, name) == \E p \in st.projects \cup t.projects : p.name = name

\* crud.create_project: [ok, tx, project]
create_project(st, t, name) ==
    LET project == [id |-> NextId(st.projects \cup t.projects), name |-> name]
    IN IF NameTaken(st, t, name)
       THEN [ok |-> FALSE, tx |-> t, project |-> project]
       ELSE [ok |-> TRUE,
             tx |-> [flush(st, t) EXCEPT !.projects = @ \cup {project}],
             project |-> project]

\* crud.create_sheet: [tx, sheet]
create_sheet(st, t, project_id, name) ==
    LET sheet == [id |-> NextId(st.sheets \cup t.sheets), name |-> name,
                  project_id |-> project_id]
    IN [tx |-> [flush(st, t) EXCEPT !.sheets = @ \cup {sheet}], sheet |-> sheet]

\* crud.bulk_insert_records: session.add_all(records), no flush
bulk_insert_records(t, sheet, rows) ==
    [t EXCEPT !.pending = @ \o
        [i \in 1..Len(rows) |->
            [id |-> 0, sheet_id |-> sheet.id, row_index |-> rows[i].row_index,
             company |-> rows[i].company, field |-> rows[i].field,
             well_name |-> rows[i].well_name, formation |-> rows[i].formation,
             data |-> rows[i].data]]]

\* get_session after the handler returned: session.commit()
session_commit(st, t) ==
    LET f == flush(st, t)
    IN [projects |-> st.projects \cup f.projects,
        sheets |-> st.sheets \cup f.sheets,
        records |-> st.records \cup f.records]

\* a session whose flushed rows stay in the database when it is rolled back
session_rollback_keeps_flushed(st, t) ==
    [projects |-> st.projects \cup t.projects,
     sheets |-> st.sheets \cup t.sheets,
     records |-> st.records \cup t.records]

\* get_session after the handler raised: session.rollback()
session_rollback(st, t) == st

-----------------------------------------------------------------------------
(* The uploads the requests of the model carry.                            *)

F_a_XLS == <<"a",".","X","L","S">>
F_c_csv == <<"c",".","c","s","v">>
F_w_lis == <<"w",".","l","i","s">>
F_w_DLIS == <<"w",".","D","L","I","S">>
F_w_txt == <<"w",".","t","x","t">>

Raw_Company == <<"C","o","m","p","a","n","y">>
Raw_Well_Name == <<"W","e","l","l"," ","N","a","m","e">>
Raw_Index == <<"I","n","d","e","x">>
Raw_Field == <<"F","i","e","l","d">>
Raw_Formation == <<"F","o","r","m","a","t","i","o","n">>

N_X == <<"X">>
N_Blank == <<" ">>
N_W1 == <<"W","-","1">>
N_S1 == <<"S","-","1">>
N_Alpha == <<"A","l","p","h","a">>
N_ALPHA == <<"A","L","P","H","A">>
N_Beta == <<"B","e","t","a">>
N_GR == <<"G","R">>
N_RHOB == <<"R","H","O","B">>

WB_Two ==
    Workbook(<<[name |-> "A", columns |-> <<Raw_Company, Raw_Well_Name>>,
                rows |-> <<<<StrVal(N_X), StrVal(N_W1)>>, <<StrVal(N_Blank), NaN>>>>],
               [name |-> "B", columns |-> <<>>, rows |-> <<>>]>>)

WB_BadIndex ==
    Workbook(<<[name |-> "S", columns |-> <<Raw_Index>>, rows |-> <<<<NaN>>>>]>>)

Corrupt == Unreadable("File is not a zip file")

\* a file that was opened for writing and not (wholly) written
Truncated == Unreadable("truncated")

NoText == [wells1 |-> <<>>, wells2 |-> <<>>, curves |-> <<>>,
           starts |-> <<None, None>>, ends |-> <<None, None>>, range |-> <<>>]

TruncatedLog == [load_raises |-> "truncated", files |-> <<>>, text |-> NoText]

LogFile(objects, curves, well, raises) ==
    [objects |-> objects, curves |-> curves, well |-> well, raises |-> raises]

Curve(name, dimension, first, last) ==
    [name |-> name, dimension |-> dimension, first |-> first, last |-> last]

Log_Bad ==
    [load_raises |-> "",
     files |-> <<LogFile(<<N_S1>>, <<>>, <<>>, ""), LogFile(<<>>, <<>>, <<>>, "RuntimeError")>>,
     text |-> [NoText EXCEPT !.wells1 = <<[pos |-> 1, name |-> N_Alpha]>>,
                             !.range = <<IntVal(1000), IntVal(500)>>]]

ImportFileNames == {F_a_XLS, F_c_csv, <<>>}
ImportBodies == {WB_Two, WB_BadIndex, Corrupt}
ProjectNames == {"P", "Q"}
PreviewFileNames == {F_w_DLIS, F_w_txt, <<>>}
PreviewBodies == {Log_Bad}
CallFileNames == {F_w_lis, F_w_txt}

-----------------------------------------------------------------------------
(* main.py: the requests.                                                  *)

Reqs == 1..MaxReqs

ExcelSuffixes ==
    {<<".","x","l","s">>, <<".","x","l","s","x">>, <<".","x","l","s","m">>}

IdleReq ==
    [kind |-> "", pc |-> "idle", filename |-> <<>>, body |-> None, project_name |-> "",
     saved |-> FALSE, fd |-> 0, loaded |-> None, project |-> 0, i |-> 0,
     status |-> 0, detail |-> <<>>]

\* the request ends: the response, or the exception that becomes one
Respond(q, status, detail) ==
    [q EXCEPT !.pc = "done", !.status = status, !.detail = detail, !.body = None]

\* open(path, "wb") by request r: creates the file, or truncates the one there
OpenWb(d, path, r, empty) ==
    [p \in DOMAIN d \cup {path} |->
        IF p # path THEN d[p]
        ELSE IF path \in DOMAIN d THEN [d[path] EXCEPT !.data = empty]
        ELSE [ino |-> r, data |-> empty]]

\* shutil.copyfileobj into the file request r opened as fd: the bytes reach
\* the path only while the path still names that file
CopyInto(d, path, fd, body) ==
    IF path \in DOMAIN d /\ d[path].ino = fd
    THEN [d EXCEPT ![path].data = body]
    ELSE d

\* Path.unlink(missing_ok=True)
Unlink(d, path) == [p \in DOMAIN d \ {path} |-> d[p]]

\* the requests arrive in the order of their numbers
Arrives(r) == req[r].pc = "idle" /\ (IF r = 1 THEN TRUE ELSE req[r - 1].pc # "idle")

\* import_project with the suffix checked after the temporary file is opened
import_project_begin_saves_first(r) ==
    /\ Arrives(r)
    /\ \E filename \in ImportFileNames \ {<<>>}, body \in ImportBodies,
          project_name \in ProjectNames :
          LET q == [IdleReq EXCEPT !.kind = "import", !.filename = filename,
                                   !.saved = TRUE]
          IN /\ disk' = OpenWb(disk, <<"uploads", filename>>, r, Truncated)
             /\ req' = [req EXCEPT ![r] =
                          IF Lower(Suffix(filename)) \notin ExcelSuffixes
                          THEN Respond(q, 400, <<"Unsupported file type">>)
                          ELSE [q EXCEPT !.pc = "copy", !.body = body,
                                         !.project_name = project_name,
                                         !.fd = disk'[<<"uploads", filename>>].ino]]
    /\ UNCHANGED <<dlisio_installed, store, tx, lock, arg, ret>>

\* import_project, lines 50-61: the checks on the file name, then the
\* temporary file is opened for writing
import_project_begin(r) ==
    /\ Arrives(r)
    /\ \E filename \in ImportFileNames :
          LET q == [IdleReq EXCEPT !.kind = "import", !.filename = filename]
          IN IF filename = <<>>
             THEN /\ req' = [req EXCEPT ![r] = Respond(q, 400, <<"No file provided">>)]
                  /\ UNCHANGED disk
             ELSE IF Lower(Suffix(filename)) \notin ExcelSuffixes
             THEN /\ req' = [req EXCEPT ![r] = Respond(q, 400, <<"Unsupported file type">>)]
                  /\ UNCHANGED disk
             ELSE \E body \in ImportBodies, project_name \in ProjectNames :
                  /\ disk' = OpenWb(disk, <<"uploads", filename>>, r, Truncated)
                  /\ req' = [req EXCEPT ![r] =
                               [q EXCEPT !.pc = "copy", !.saved = TRUE,
                                         !.body = body, !.project_name = project_name,
                                         !.fd = disk'[<<"uploads", filename>>].ino]]
    /\ UNCHANGED <<dlisio_installed, store, tx, lock, arg, ret>>

\* import_project, line 62: the upload is copied to the temporary file
import_project_copy(r) ==
    /\ req[r].kind = "import" /\ req[r].pc = "copy"
    /\ disk' = CopyInto(disk, <<"uploads", req[r].filename>>, req[r].fd, req[r].body)
    /\ req' = [req EXCEPT ![r].pc = "load"]
    /\ UNCHANGED <<dlisio_installed, store, tx, lock, arg, ret>>

\* import_project, line 62 raising (a read or write error): outside the
\* try of line 64, so the exception leaves the handler at once
import_project_copy_fail(r) ==
    /\ req[r].kind = "import" /\ req[r].pc = "copy"
    /\ req' = [req EXCEPT ![r] = Respond(req[r], 500, <<"OSError">>)]
    /\ store' = session_rollback(store, tx[r])
    /\ UNCHANGED <<disk, dlisio_installed, tx, lock, arg, ret>>

\* import_project, line 65: load_excel reads the temporary path
import_project_load(r) ==
    /\ req[r].kind = "import" /\ req[r].pc = "load"
    /\ LET path == <<"uploads", req[r].filename>>
           found == IF path \in DOMAIN disk THEN disk[path].data
                    ELSE Unreadable("No such file or directory")
       IN req' = [req EXCEPT ![r].pc = "unlink", ![r].loaded = load_excel(found)]
    /\ UNCHANGED <<disk, dlisio_installed, store, tx, lock, arg, ret>>

\* import_project, lines 66-69: the finally clause removes the temporary
\* file; an ExcelIngestionError becomes a 400, any other exception leaves
\* the handler
import_project_unlink(r) ==
    /\ req[r].kind = "import" /\ req[r].pc = "unlink"
    /\ disk' = Unlink(disk, <<"uploads", req[r].filename>>)
    /\ IF req[r].loaded.ok
       THEN /\ req' = [req EXCEPT ![r].pc = "create_project"]
            /\ UNCHANGED store
       ELSE /\ req' = [req EXCEPT ![r] =
                         IF req[r].loaded.exc = "ExcelIngestionError"
                         THEN Respond(req[r], 400, req[r].loaded.msg)
                         ELSE Respond(req[r], 500, <<req[r].loaded.exc>>)]
            /\ store' = session_rollback(store, tx[r])
    /\ UNCHANGED <<dlisio_installed, tx, lock, arg, ret>>

\* import_project, line 71: the INSERT takes SQLite's write lock, which the
\* session keeps until it commits or rolls back; an IntegrityError leaves
\* the handler and get_session rolls back
import_project_create_project(r) ==
    /\ req[r].kind = "import" /\ req[r].pc = "create_project"
    /\ lock = 0
    /\ LET created == create_project(store, tx[r], req[r].project_name)
       IN IF created.ok
          THEN /\ tx' = [tx EXCEPT ![r] = created.tx]
               /\ lock' = r
               /\ req' = [req EXCEPT ![r].pc = "sheets", ![r].project = created.project.id]
               /\ UNCHANGED store
          ELSE /\ req' = [req EXCEPT ![r] = Respond(req[r], 500, <<"IntegrityError">>)]
               /\ store' = session_rollback(store, tx[r])
               /\ tx' = [tx EXCEPT ![r] = EmptyTx]
               /\ UNCHANGED lock
    /\ UNCHANGED <<disk, dlisio_installed, arg, ret>>

\* import_project, lines 73-75: one iteration of the loop over sheets.items()
import_project_sheet(r) ==
    /\ req[r].kind = "import" /\ req[r].pc = "sheets"
    /\ req[r].i < Len(req[r].loaded.sheets)
    /\ LET item == req[r].loaded.sheets[req[r].i + 1]
           created == create_sheet(store, tx[r], req[r].project, item.name)
       IN tx' = [tx EXCEPT ![r] = bulk_insert_records(created.tx, created.sheet, item.rows)]
    /\ req' = [req EXCEPT ![r].i = @ + 1]
    /\ UNCHANGED <<disk, dlisio_installed, store, lock, arg, ret>>

\* import_project, lines 77-78, and get_session's commit after the handler
\* returned
import_project_return(r) ==
    /\ req[r].kind = "import" /\ req[r].pc = "sheets"
    /\ req[r].i = Len(req[r].loaded.sheets)
    /\ store' = session_commit(store, tx[r])
    /\ tx' = [tx EXCEPT ![r] = EmptyTx]
    /\ lock' = 0
    /\ req' = [req EXCEPT ![r] = Respond(req[r], 200, <<>>)]
    /\ UNCHANGED <<disk, dlisio_installed, arg, ret>>

\* any statement of lines 71-78 or the commit raising (the database is
\* locked, the disk is full, ...): get_session rolls back and re-raises
session_failure(r) ==
    /\ req[r].kind = "import" /\ req[r].pc \in {"create_project", "sheets"}
    /\ store' = session_rollback(store, tx[r])
    /\ tx' = [tx EXCEPT ![r] = EmptyTx]
    /\ lock' = IF lock = r THEN 0 ELSE lock
    /\ req' = [req EXCEPT ![r] = Respond(req[r], 500, <<"OperationalError">>)]
    /\ UNCHANGED <<disk, dlisio_installed, arg, ret>>

\* preview_well_log, lines 83-94
preview_well_log_begin(r) ==
    /\ Arrives(r)
    /\ \E filename \in PreviewFileNames :
          LET q == [IdleReq EXCEPT !.kind = "preview", !.filename = filename]
          IN IF filename = <<>>
             THEN /\ req' = [req EXCEPT ![r] = Respond(q, 400, <<"No file provided">>)]
                  /\ UNCHANGED disk
             ELSE IF Lower(Suffix(filename)) \notin SUPPORTED_EXTENSIONS
             THEN /\ req' = [req EXCEPT ![r] = Respond(q, 400, <<"Unsupported file type">>)]
                  /\ UNCHANGED disk
             ELSE \E body \in PreviewBodies :
                  /\ disk' = OpenWb(disk, <<"logs", filename>>, r, TruncatedLog)
                  /\ req' = [req EXCEPT ![r] =
                               [q EXCEPT !.pc = "copy", !.saved = TRUE, !.body = body,
                                         !.fd = disk'[<<"logs", filename>>].ino]]
    /\ UNCHANGED <<dlisio_installed, store, tx, lock, arg, ret>>

\* preview_well_log, line 95
preview_well_log_copy(r) ==
    /\ req[r].kind = "preview" /\ req[r].pc = "copy"
    /\ disk' = CopyInto(disk, <<"logs", req[r].filename>>, req[r].fd, req[r].body)
    /\ req' = [req EXCEPT ![r].pc = "load"]
    /\ UNCHANGED <<dlisio_installed, store, tx, lock, arg, ret>>

\* preview_well_log, line 95 raising: outside the try of line 97
preview_well_log_copy_fail(r) ==
    /\ req[r].kind = "preview" /\ req[r].pc = "copy"
    /\ req' = [req EXCEPT ![r] = Respond(req[r], 500, <<"OSError">>)]
    /\ UNCHANGED <<disk, dlisio_installed, store, tx, lock, arg, ret>>

\* preview_well_log, line 98
preview_well_log_load(r) ==
    /\ req[r].kind = "preview" /\ req[r].pc = "load"
    /\ LET path == <<"logs", req[r].filename>>
           found == IF path \in DOMAIN disk THEN disk[path].data ELSE None
       IN req' = [req EXCEPT ![r].pc = "unlink",
                             ![r].loaded = load_summary(req[r].filename, found,
                                                        dlisio_installed)]
    /\ UNCHANGED <<disk, dlisio_installed, store, tx, lock, arg, ret>>

\* preview_well_log, lines 99-104
preview_well_log_unlink(r) ==
    /\ req[r].kind = "preview" /\ req[r].pc = "unlink"
    /\ disk' = Unlink(disk, <<"logs", req[r].filename>>)
    /\ req' = [req EXCEPT ![r] =
                 IF req[r].loaded.ok THEN Respond(req[r], 200, <<>>)
                 ELSE IF req[r].loaded.exc = "WellLogError"
                 THEN Respond(req[r], 400,
                              <<"Unsupported file type. Expected a .lis or .dlis file.">>)
                 ELSE Respond(req[r], 500, <<req[r].loaded.exc>>)]
    /\ UNCHANGED <<dlisio_installed, store, tx, lock, arg, ret>>

\* load_summary(path) called by code other than preview_well_log, on a file
\* it names itself; the call's result is kept in loaded
load_summary_call(r) ==
    /\ Arrives(r)
    /\ \E filename \in CallFileNames :
          req' = [req EXCEPT ![r] =
                    [IdleReq EXCEPT !.kind = "call", !.pc = "done", !.filename = filename,
                                    !.loaded = load_summary(filename, Log_Bad,
                                                            dlisio_installed)]]
    /\ UNCHANGED <<disk, dlisio_installed, store, tx, lock, arg, ret>>

Init ==
    /\ req = [r \in Reqs |-> IdleReq]
    /\ disk = <<>>
    /\ dlisio_installed = TRUE
    /\ store = EmptyStore
    /\ tx = [r \in Reqs |-> EmptyTx]
    /\ lock = 0
    /\ arg = None
    /\ ret = None

Next ==
    \E r \in Reqs :
        \/ import_project_begin(r)
        \/ import_project_copy(r)
        \/ import_project_copy_fail(r)
        \/ import_project_load(r)
        \/ import_project_unlink(r)
        \/ import_project_create_project(r)
        \/ import_project_sheet(r)
        \/ import_project_return(r)
        \/ session_failure(r)
        \/ preview_well_log_begin(r)
        \/ preview_well_log_copy(r)
        \/ preview_well_log_copy_fail(r)
        \/ preview_well_log_load(r)
        \/ preview_well_log_unlink(r)
        \/ load_summary_call(r)

Spec == Init /\ [][Next]_vars

-----------------------------------------------------------------------------
(* Properties of the requests (specification Spec).                        *)

Succeeded(r) == req[r].kind = "import" /\ req[r].pc = "done" /\ req[r].status = 200

SheetsOf(project_id) == {s \in store.sheets : s.project_id = project_id}

RowOf(x) ==
    [row_index |-> x.row_index, company |-> x.company, field |-> x.field,
     well_name |-> x.well_name, formation |-> x.formation, data |-> x.data]

RECURSIVE SortById(_)
SortById(S) ==
    IF S = {} THEN <<>>
    ELSE LET m == CHOOSE x \in S : \A y \in S : x.id <= y.id
         IN <<m>> \o SortById(S \ {m})

\* the rows persisted for a sheet, in the order of their insertion
StoredRows(sheet_id) ==
    LET sorted == SortById({x \in store.records : x.sheet_id = sheet_id})
    IN [k \in 1..Len(sorted) |-> RowOf(sorted[k])]

\* C1: in every reachable store, every project is the project of an import
\* that succeeded, and every import that succeeded has its project with
\* exactly one sheet per worksheet of the workbook it parsed, each holding
\* exactly that worksheet's records in order; no sheet lacks its project and
\* no record its sheet.  An import that failed or has not yet returned has
\* nothing in the store.
C1_ImportAllOrNothing ==
    /\ \A p \in store.projects :
          \E r \in Reqs : Succeeded(r) /\ req[r].project = p.id
                                       /\ req[r].project_name = p.name
    /\ \A p1, p2 \in store.projects : p1.id = p2.id => p1 = p2
    /\ \A r1, r2 \in Reqs :
          Succeeded(r1) /\ Succeeded(r2) /\ r1 # r2 => req[r1].project # req[r2].project
    /\ \A r \in Reqs :
          Succeeded(r) =>
             /\ \E p \in store.projects : p.id = req[r].project
             /\ Cardinality(SheetsOf(req[r].project)) = Len(req[r].loaded.sheets)
             /\ \A i \in 1..Len(req[r].loaded.sheets) :
                   \E s \in SheetsOf(req[r].project) :
                      /\ s.name = req[r].loaded.sheets[i].name
                      /\ StoredRows(s.id) = req[r].loaded.sheets[i].rows
    /\ \A s \in store.sheets : \E p \in store.projects : p.id = s.project_id
    /\ \A x \in store.records : \E s \in store.sheets : s.id = x.sheet_id

\* an import of two worksheets has committed and another import failed
\* after its project row had been flushed
C1_Witness ==
    \E r1, r2 \in Reqs :
       /\ Succeeded(r1) /\ Len(req[r1].loaded.sheets) = 2 /\ store.records # {}
       /\ req[r2].kind = "import" /\ req[r2].pc = "done" /\ req[r2].status = 500
       /\ req[r2].project # 0

LoadFailed(q) ==
    q.kind = "import" /\ q.pc = "unlink" /\ q.loaded.exc = "ExcelIngestionError"

OpenCauses == {"File is not a zip file", "truncated", "No such file or directory"}

\* what load_excel finds at the temporary path of request q
FoundAt(q, d) ==
    IF <<"uploads", q.filename>> \in DOMAIN d
    THEN d[<<"uploads", q.filename>>].data
    ELSE Unreadable("No such file or directory")

\* C2: load_excel on a file that cannot be opened raises ExcelIngestionError
\* with the message "Failed to read Excel file: <cause>"; the import then
\* ends in its next step with status 400 and that message as the detail,
\* and no step an import takes up to and including that one changes the
\* store or leaves rows in its session.
C2_UnreadableWorkbook ==
    [][\A r \in Reqs :
          (req'[r] # req[r] /\ req'[r].kind = "import"
               /\ req[r].pc \in {"idle", "copy", "load", "unlink"})
          => /\ store' = store
             /\ tx'[r] = EmptyTx
             /\ (req[r].pc = "load" /\ req'[r].pc = "unlink"
                     /\ ~FoundAt(req[r], disk).readable)
                => /\ req'[r].loaded.exc = "ExcelIngestionError"
                   /\ req'[r].loaded.msg =
                         <<"Failed to read Excel file: ", FoundAt(req[r], disk).cause>>
             /\ LoadFailed(req[r]) =>
                   /\ req'[r].pc = "done"
                   /\ req'[r].status = 400
                   /\ req'[r].detail = req[r].loaded.msg
                   /\ req'[r].detail[2] \in OpenCauses
                   /\ req'[r].project = 0]_vars

\* an import of a corrupt workbook has ended with the 400 while the store
\* holds a project of another import
C2_Witness ==
    \E r \in Reqs :
       /\ req[r].kind = "import" /\ req[r].pc = "done" /\ req[r].status = 400
       /\ req[r].detail = <<"Failed to read Excel file: ", "File is not a zip file">>
       /\ store.projects # {}

\* the temporary file of request q is still on disk d
TempFileLeft(q, d) ==
    LET path == <<IF q.kind = "import" THEN "uploads" ELSE "logs", q.filename>>
    IN q.saved /\ path \in DOMAIN d /\ d[path].ino = q.fd

\* C3: when a request that opened its temporary file ends, on any path,
\* the file is no longer on disk.
C3_TempFileRemoved ==
    [][\A r \in Reqs :
          req[r].pc # "done" /\ req'[r].pc = "done" => ~TempFileLeft(req'[r], disk')]_vars

\* name ends with one of the extensions, ignoring case
EndsWithAny(name, exts) ==
    \E e \in exts :
       /\ Len(name) >= Len(e)
       /\ Lower(SubSeq(name, Len(name) - Len(e) + 1, Len(name))) = e

AcceptedExtensions(kind) ==
    IF kind = "import"
    THEN {<<".","x","l","s">>, <<".","x","l","s","x">>, <<".","x","l","s","m">>}
    ELSE {<<".","l","i","s">>, <<".","d","l","i","s">>}

\* C5: a request (or a direct load_summary call) whose file name does not
\* end with an accepted extension ends in its first step, with status 400
\* (WellLogError for the call), having written no temporary file, called no
\* parser tier and left the disk, the store and every session unchanged.
C5_RejectedBeforeParsing ==
    [][\A r \in Reqs :
          (req[r].pc = "idle" /\ req'[r].pc # "idle"
               /\ ~EndsWithAny(req'[r].filename, AcceptedExtensions(req'[r].kind)))
          => /\ req'[r].pc = "done"
             /\ IF req'[r].kind = "call"
                THEN req'[r].loaded.exc = "WellLogError" /\ req'[r].loaded.tiers = <<>>
                ELSE req'[r].status = 400 /\ req'[r].loaded = None
             /\ ~req'[r].saved
             /\ disk' = disk /\ store' = store /\ tx' = tx]_vars

\* an import of c.csv, or a preview or a call on w.txt, was rejected while
\* another request's temporary file was on disk
C5_Witness ==
    \E r \in Reqs :
       /\ req[r].pc = "done" /\ req[r].filename \in {F_c_csv, F_w_txt}
       /\ req[r].kind = "call" \/ req[r].status = 400
       /\ DOMAIN disk # {}

\* C6: no two persisted projects have the same name.
C6_ProjectNamesUnique ==
    \A p1, p2 \in store.projects : p1.name = p2.name => p1 = p2

\* an import committed and another with the same project_name failed on
\* the unique constraint
C6_Witness ==
    \E r1, r2 \in Reqs :
       /\ Succeeded(r1)
       /\ req[r2].pc = "done" /\ req[r2].detail = <<"IntegrityError">>
       /\ req[r2].project_name = req[r1].project_name

-----------------------------------------------------------------------------
(* load_excel on one worksheet (specification SpecExcel).                  *)

Raw_Row_Index == <<"R","o","w"," ","I","n","d","e","x">>

RawHeaders == {Raw_Index, Raw_Row_Index, Raw_Company, Raw_Well_Name}

Cells == {IntVal(7), StrVal(N_X), StrVal(N_Blank), NaN}

\* the sequences over S of length n
SeqsOfLen(S, n) == [1..n -> S]

\* the sequences over S of length at most n
SeqsUpTo(S, n) == UNION {SeqsOfLen(S, k) : k \in 0..n}

\* pandas gives the columns of a worksheet distinct labels
HeaderRows ==
    {columns \in SeqsUpTo(RawHeaders, MaxCols) :
        \A i, j \in DOMAIN columns : columns[i] = columns[j] => i = j}

\* a worksheet without columns has no data rows
Worksheets ==
    {[name |-> "S", columns |-> columns, rows |-> rows] :
        columns \in HeaderRows \ {<<>>},
        rows \in SeqsUpTo(SeqsOfLen(Cells, MaxCols), MaxRows) \cup
                 SeqsUpTo(SeqsOfLen(Cells, 1), MaxRows)}

WorksheetInputs ==
    {ws \in Worksheets : \A k \in DOMAIN ws.rows : Len(ws.rows[k]) = Len(ws.columns)}
    \cup {[name |-> "S", columns |-> <<>>, rows |-> <<>>]}

Quiet ==
    /\ req = [r \in Reqs |-> IdleReq]
    /\ disk = <<>>
    /\ store = EmptyStore
    /\ tx = [r \in Reqs |-> EmptyTx]
    /\ lock = 0

InitExcel ==
    /\ Quiet
    /\ dlisio_installed = TRUE
    /\ arg \in WorksheetInputs
    /\ ret = None

\* load_excel(path) on a workbook whose only worksheet is arg
load_excel_call ==
    /\ ret = None
    /\ ret' = load_excel(Workbook(<<arg>>))
    /\ UNCHANGED <<req, disk, dlisio_installed, store, tx, lock, arg>>

NextExcel == load_excel_call

SpecExcel == InitExcel /\ [][NextExcel]_vars

\* C8: for a worksheet of n data rows, whatever its headers, load_excel
\* returns n records for it, the k-th (from 0) with row_index = k.
C8_RowIndexIsPosition ==
    ret.t = "load_excel" =>
       /\ ret.ok
       /\ Len(ret.sheets) = 1
       /\ Len(ret.sheets[1].rows) = Len(arg.rows)
       /\ \A k \in DOMAIN ret.sheets[1].rows : ret.sheets[1].rows[k].row_index = k - 1

-----------------------------------------------------------------------------
(* The read endpoints on a store that holds one imported project           *)
(* (specifications SpecStats and SpecRecords).                             *)

\* the store after import_project ran alone to its commit on a workbook
\* that load_excel accepts
ImportedStore(project_name, content) ==
    LET sheets == load_excel(content).sheets
        created == create_project(EmptyStore, EmptyTx, project_name)
        step(t, item) ==
            LET cs == create_sheet(EmptyStore, t, created.project.id, item.name)
            IN bulk_insert_records(cs.tx, cs.sheet, item.rows)
        after[i \in 0..Len(sheets)] ==
            IF i = 0 THEN created.tx ELSE step(after[i - 1], sheets[i])
    IN session_commit(EmptyStore, after[Len(sheets)])

\* crud.get_project: the project or None
get_project(st, project_id) ==
    IF \E p \in st.projects : p.id = project_id
    THEN CHOOSE p \in st.projects : p.id = project_id
    ELSE None

\* record.sheet of a record loaded with its sheet
WithSheet(st, x) ==
    x @@
    [sheet |-> IF \E sh \in st.sheets : sh.id = x.sheet_id
               THEN [t |-> "sheet",
                     name |-> (CHOOSE sh \in st.sheets : sh.id = x.sheet_id).name]
               ELSE None]

\* Counter[key] += 1
Incr(counter, key) ==
    [k \in DOMAIN counter \cup {key} |->
        IF k = key THEN (IF key \in DOMAIN counter THEN counter[key] ELSE 0) + 1
        ELSE counter[k]]

\* the truth value of an Optional[str]
Truthy(v) == v.t = "str" /\ v.s # <<>>

\* the label "<lo>-<hi>" of a row bucket, as the pair of its numbers
Bucket(row_index) == <<(row_index \div 10) * 10, (row_index \div 10) * 10 + 9>>

\* the body of compute_stats's loop, for one record
stats_record(acc, record) ==
    LET sheet_name == IF record.sheet # None THEN record.sheet.name ELSE "Unknown"
    IN [wells_by_sheet |-> Incr(acc.wells_by_sheet, sheet_name),
        sheet_row_counts |-> Incr(acc.sheet_row_counts, sheet_name),
        wells_by_company |-> IF Truthy(record.company)
                             THEN Incr(acc.wells_by_company, record.company.s)
                             ELSE acc.wells_by_company,
        wells_by_field |-> IF Truthy(record.field)
                           THEN Incr(acc.wells_by_field, record.field.s)
                           ELSE acc.wells_by_field,
        wells_by_formation |-> IF Truthy(record.formation)
                               THEN Incr(acc.wells_by_formation, record.formation.s)
                               ELSE acc.wells_by_formation,
        wells_per_row_bucket |-> Incr(acc.wells_per_row_bucket, Bucket(record.row_index))]

\* crud.compute_stats
compute_stats(records) ==
    LET after[i \in 0..Len(records)] ==
            IF i = 0
            THEN [wells_by_sheet |-> <<>>, sheet_row_counts |-> <<>>,
                  wells_by_company |-> <<>>, wells_by_field |-> <<>>,
                  wells_by_formation |-> <<>>, wells_per_row_bucket |-> <<>>]
            ELSE stats_record(after[i - 1], records[i])
    IN after[Len(records)]

\* the records of a project, each with its sheet, in rowid order
ProjectRecords(st, project_id) ==
    LET sheet_ids == {sh.id : sh \in {x \in st.sheets : x.project_id = project_id}}
        sorted == SortById({x \in st.records : x.sheet_id \in sheet_ids})
    IN [k \in 1..Len(sorted) |-> WithSheet(st, sorted[k])]

InitStats ==
    /\ req = [r \in Reqs |-> IdleReq]
    /\ disk = <<>>
    /\ tx = [r \in Reqs |-> EmptyTx]
    /\ lock = 0
    /\ dlisio_installed = TRUE
    /\ \E rows \in SeqsUpTo(SeqsOfLen({StrVal(N_X), StrVal(N_Blank), NaN}, 3), MaxRows) :
          store = ImportedStore("P",
                     Workbook(<<[name |-> "A",
                                 columns |-> <<Raw_Company, Raw_Field, Raw_Formation>>,
                                 rows |-> rows],
                                [name |-> "B", columns |-> <<Raw_Company>>,
                                 rows |-> [k \in 1..11 |-> <<StrVal(N_Beta)>>]]>>))
    /\ arg = None
    /\ ret = None

\* get_project_stats
get_project_stats ==
    /\ ret = None
    /\ \E project_id \in 1..2 :
          /\ arg' = [t |-> "stats", project_id |-> project_id]
          /\ ret' = IF get_project(store, project_id) = None
                    THEN [t |-> "stats", status |-> 404, stats |-> <<>>]
                    ELSE [t |-> "stats", status |-> 200,
                          stats |-> compute_stats(ProjectRecords(store, project_id))]
    /\ UNCHANGED <<req, disk, dlisio_installed, store, tx, lock>>

NextStats == get_project_stats

SpecStats == InitStats /\ [][NextStats]_vars

\* the counts of the records that satisfy keep, by key
Tally(records, key(_), keep(_)) ==
    LET kept == {i \in DOMAIN records : keep(records[i])}
    IN [k \in {key(records[i]) : i \in kept} |->
          Cardinality({i \in kept : key(records[i]) = k})]

\* an extracted field that is null or blank
NullOrBlank(v) == v.t = "none" \/ Strip(v.s) = <<>>

\* C9: compute_stats counts every record once under its sheet name in
\* wells_by_sheet and in sheet_row_counts and once under its row bucket,
\* and counts it under its company (field, formation) exactly when that is
\* neither null nor blank.
C9_StatsCountEveryRecord ==
    (ret.t = "stats" /\ ret.status = 200) =>
       LET records == ProjectRecords(store, arg.project_id)
           by_sheet == Tally(records,
                             LAMBDA x : IF x.sheet # None THEN x.sheet.name ELSE "Unknown",
                             LAMBDA x : TRUE)
       IN /\ ret.stats.wells_by_sheet = by_sheet
          /\ ret.stats.sheet_row_counts = by_sheet
          /\ ret.stats.wells_per_row_bucket =
                Tally(records,
                      LAMBDA x : <<x.row_index - (x.row_index % 10),
                                   x.row_index - (x.row_index % 10) + 9>>,
                      LAMBDA x : TRUE)
          /\ ret.stats.wells_by_company =
                Tally(records, LAMBDA x : x.company.s, LAMBDA x : ~NullOrBlank(x.company))
          /\ ret.stats.wells_by_field =
                Tally(records, LAMBDA x : x.field.s, LAMBDA x : ~NullOrBlank(x.field))
          /\ ret.stats.wells_by_formation =
                Tally(records, LAMBDA x : x.formation.s,
                      LAMBDA x : ~NullOrBlank(x.formation))

-----------------------------------------------------------------------------
(* GET /api/projects/{id}/records (specification SpecRecords).             *)

\* main.py: limit=min(limit, 500)
LimitCap == 500

\* a sheet name given as a query parameter
SheetParam(name) == [t |-> "name", name |-> name]

\* x comes before y in ORDER BY row_index (rows of equal row_index in
\* rowid order)
RowOrder(x, y) == x.row_index < y.row_index \/ (x.row_index = y.row_index /\ x.id < y.id)

\* the elements of S in RowOrder.  (f @@ <<>> is f, as a table.)
SortByRowIndex(S) ==
    LET ids == {x.id : x \in S}
        row == [i \in ids |-> CHOOSE x \in S : x.id = i] @@ <<>>
        place == [i \in ids |-> Cardinality({j \in ids : RowOrder(row[j], row[i])}) + 1]
                 @@ <<>>
    IN [k \in 1..Cardinality(ids) |-> row[CHOOSE i \in ids : place[i] = k]]

\* SQLite's OFFSET: a negative offset skips nothing
SqlOffset(rows, offset) ==
    IF offset <= 0 THEN rows ELSE SubSeq(rows, offset + 1, Len(rows))

\* SQLite's LIMIT: a negative limit is no limit
SqlLimit(rows, limit) ==
    IF limit < 0 THEN rows ELSE SubSeq(rows, 1, Min2(limit, Len(rows)))

\* crud.list_records
list_records(st, project_id, sheet_name, offset, limit, row_start, row_end) ==
    LET matching ==
            {x \in st.records :
                /\ \E sh \in st.sheets :
                      /\ sh.id = x.sheet_id
                      /\ sh.project_id = project_id
                      /\ (sheet_name.t = "name" /\ sheet_name.name # "")
                            => sh.name = sheet_name.name
                /\ row_start # None => x.row_index >= row_start.n
                /\ row_end # None => x.row_index <= row_end.n}
    IN SqlLimit(SqlOffset(SortByRowIndex(matching), offset), limit)

RecordCounts == {0, 3, LimitCap + 1}

InitRecords ==
    /\ req = [r \in Reqs |-> IdleReq]
    /\ disk = <<>>
    /\ tx = [r \in Reqs |-> EmptyTx]
    /\ lock = 0
    /\ dlisio_installed = TRUE
    /\ \E n \in RecordCounts :
          store = ImportedStore("P",
                     Workbook(<<[name |-> "A", columns |-> <<Raw_Company>>,
                                 rows |-> [k \in 1..n |-> <<StrVal(N_X)>>]],
                                [name |-> "B", columns |-> <<Raw_Company>>,
                                 rows |-> <<<<StrVal(N_Beta)>>>>]>>))
    /\ arg = None
    /\ ret = None

\* get_project_records
get_project_records ==
    /\ ret = None
    /\ \E project_id \in 1..2, sheet \in {None, SheetParam("A")},
          offset \in {-1, 0, 2}, limit \in {-1, 0, 2, LimitCap, LimitCap + 1},
          row_start \in {None, IntVal(1)}, row_end \in {None, IntVal(2)} :
          /\ arg' = [t |-> "records", project_id |-> project_id, sheet |-> sheet,
                     offset |-> offset, limit |-> limit, row_start |-> row_start,
                     row_end |-> row_end]
          /\ ret' = IF get_project(store, project_id) = None
                    THEN [t |-> "records", status |-> 404, records |-> <<>>]
                    ELSE [t |-> "records", status |-> 200,
                          records |-> list_records(store, project_id, sheet, offset,
                                                   Min2(limit, LimitCap), row_start,
                                                   row_end)]
    /\ UNCHANGED <<req, disk, dlisio_installed, store, tx, lock>>

NextRecords == get_project_records

SpecRecords == InitRecords /\ [][NextRecords]_vars

\* C7: whatever limit and offset are, the response for an existing project
\* holds at most 500 records, each within the row_start and row_end given.
C7_AtMost500InRange ==
    (ret.t = "records" /\ ret.status = 200) =>
       /\ Len(ret.records) <= 500
       /\ \A k \in DOMAIN ret.records :
             /\ arg.row_start # None => arg.row_start.n <= ret.records[k].row_index
             /\ arg.row_end # None => ret.records[k].row_index <= arg.row_end.n

-----------------------------------------------------------------------------
(* load_summary on one log file (specification SpecLog).                   *)

\* what dlisio can find in a logical file: names S-1 and GR, depths 100-900
LogFileChoices ==
    {LogFile(<<>>, <<>>, <<>>, ""),
     LogFile(<<N_S1>>, <<Curve(N_GR, StrVal(<<"m">>), IntVal(100), IntVal(900))>>,
             <<N_S1>>, ""),
     LogFile(<<>>, <<Curve(N_RHOB, None, None, None)>>, <<N_S1>>, ""),
     LogFile(<<N_S1>>, <<Curve(N_GR, StrVal(<<"m">>), IntVal(100), IntVal(900))>>,
             <<>>, "RuntimeError")}

\* what the heuristic patterns can find in the text: names Alpha and Beta,
\* curve name RHOB, depths 1000, 3500 and 500
TextChoices ==
    {NoText,
     [NoText EXCEPT !.wells1 = <<[pos |-> 1, name |-> N_Alpha]>>,
                    !.wells2 = <<[pos |-> 9, name |-> N_ALPHA]>>,
                    !.starts = <<IntVal(1000), None>>],
     [NoText EXCEPT !.wells1 = <<[pos |-> 4, name |-> N_Beta], [pos |-> 20, name |-> N_Alpha]>>,
                    !.curves = <<N_RHOB, N_RHOB>>,
                    !.starts = <<None, IntVal(1000)>>,
                    !.ends = <<IntVal(3500), None>>,
                    !.range = <<IntVal(1000), IntVal(500)>>],
     [NoText EXCEPT !.curves = <<N_RHOB>>,
                    !.range = <<IntVal(1000), IntVal(500)>>]}

LogContents ==
    {[load_raises |-> load_raises, files |-> files, text |-> text] :
        load_raises \in {"", "OSError"},
        files \in SeqsUpTo(LogFileChoices, MaxLogFiles),
        text \in TextChoices}

InitLog ==
    /\ Quiet
    /\ dlisio_installed \in BOOLEAN
    /\ arg \in {[t |-> "log", file_name |-> file_name, content |-> content] :
                   file_name \in {F_w_lis, F_w_DLIS}, content \in LogContents}
    /\ ret = None

\* load_summary(path) on the log file arg
load_summary_apply ==
    /\ ret = None
    /\ ret' = load_summary(arg.file_name, arg.content, dlisio_installed)
    /\ UNCHANGED <<req, disk, dlisio_installed, store, tx, lock, arg>>

NextLog == load_summary_apply

SpecLog == InitLog /\ [][NextLog]_vars

\* the structured tier fails on the log: dlisio is missing, or its loader
\* or the reading of one of the logical files raises
StructuredFails(content) ==
    \/ ~dlisio_installed
    \/ content.load_raises # ""
    \/ \E i \in DOMAIN content.files : content.files[i].raises # ""

\* the exception the structured tier fails with first
FirstFailure(content) ==
    IF ~dlisio_installed THEN "ImportError"
    ELSE IF content.load_raises # "" THEN content.load_raises
    ELSE content.files[CHOOSE i \in DOMAIN content.files :
                          /\ content.files[i].raises # ""
                          /\ \A j \in 1..(i - 1) : content.files[j].raises = ""].raises

StructuredNames == {N_S1, N_GR}
StructuredDepths == {IntVal(100), IntVal(900)}

TierNotes == {NoteDlisio, NoteHeuristic}

IsFallbackNote(note) ==
    \/ note = NoteNotInstalled
    \/ Len(note) = 3 /\ note[1] = "dlisio parsing failed ("
                     /\ note[3] = "). Using heuristic parser instead."

\* C10: the notes of a returned summary hold exactly one tier note; it is
\* the only note (the dlisio note) when the structured tier succeeded, and
\* it is the heuristic note, with exactly one fallback note beside it, when
\* the structured tier failed.
C10_OneTierNote ==
    (ret.t = "load_summary" /\ ret.ok) =>
       LET notes == ret.summary.notes
       IN /\ Cardinality({i \in DOMAIN notes : notes[i] \in TierNotes}) = 1
          /\ IF StructuredFails(arg.content)
             THEN /\ Len(notes) = 2
                  /\ \E i \in DOMAIN notes : notes[i] = NoteHeuristic
                  /\ Cardinality({i \in DOMAIN notes : IsFallbackNote(notes[i])}) = 1
             ELSE notes = <<NoteDlisio>>

\* a summary came back from the heuristic tier after dlisio raised
C10_Witness ==
    /\ ret.t = "load_summary" /\ ret.ok
    /\ dlisio_installed /\ StructuredFails(arg.content)
    /\ Len(ret.summary.notes) = 2

-----------------------------------------------------------------------------
(* Python's re on the patterns of log_loader.py.                           *)
(*                                                                         *)
(* A pattern is a sequence of items, matched in order with backtracking:   *)
(*   lit    a literal, compared ignoring case (re.IGNORECASE)              *)
(*   set    min to max characters of a class, greedy (max -1: no maximum)  *)
(*   opt    an optional group (?:...)?, greedy                             *)
(*   alt    an alternation (?:a|b), a tried first                          *)
(*   open, close   the parentheses of capturing group g                    *)

Lit(chars) == [k |-> "lit", s |-> chars]
Set(cls, min, max) == [k |-> "set", cls |-> cls, min |-> min, max |-> max]
Opt(sub) == [k |-> "opt", sub |-> sub]
Alt(a, b) == [k |-> "alt", a |-> a, b |-> b]
Open(g) == [k |-> "open", g |-> g]
Close(g) == [k |-> "close", g |-> g]

\* membership of one character in a character class, ignoring case
InClass(cls, c) ==
    CASE cls = "space" -> IsSpace(c)                              \* \s
      [] cls = "sep" -> c \in {":", "=", "-"}                     \* [:=-]
      [] cls = "minus" -> c = "-"                                 \* -
      [] cls = "digit" -> IsDigit(c)                              \* \d
      [] cls = "dash_t_o" -> LowerChar(c) \in {"-", "t", "o"}     \* [-to]
      [] cls = "name" ->                                          \* [A-Za-z0-9_\-\s]
            \/ \E i \in DOMAIN LowerAlpha : LowerAlpha[i] = LowerChar(c)
            \/ IsDigit(c) \/ c \in {"_", "-"} \/ IsSpace(c)

NoMatch == [ok |-> FALSE, start |-> 0, end |-> 0, caps |-> <<>>]

NoCaps == <<<<0, 0>>, <<0, 0>>>>

\* how many characters of the class follow position pos, at most max
RECURSIVE RunLength(_, _, _, _)
RunLength(cls, text, pos, max) ==
    IF max # 0 /\ pos <= Len(text) /\ InClass(cls, text[pos])
    THEN 1 + RunLength(cls, text, pos + 1, max - 1)
    ELSE 0

RECURSIVE re_match(_, _, _, _)
RECURSIVE re_repeat(_, _, _, _, _)

\* the items matched from position pos on: the first way that succeeds
re_match(items, text, pos, caps) ==
    IF Len(items) = 0 THEN [ok |-> TRUE, start |-> 0, end |-> pos, caps |-> caps]
    ELSE LET h == Head(items)
             rest == Tail(items)
         IN CASE h.k = "lit" ->
                   IF /\ pos + Len(h.s) - 1 <= Len(text)
                      /\ \A i \in 1..Len(h.s) : LowerChar(text[pos + i - 1]) = LowerChar(h.s[i])
                   THEN re_match(rest, text, pos + Len(h.s), caps)
                   ELSE NoMatch
              [] h.k = "set" ->
                   re_repeat(items, text, pos, caps, RunLength(h.cls, text, pos, h.max))
              [] h.k = "opt" ->
                   LET with == re_match(h.sub \o rest, text, pos, caps)
                   IN IF with.ok THEN with ELSE re_match(rest, text, pos, caps)
              [] h.k = "alt" ->
                   LET first == re_match(h.a \o rest, text, pos, caps)
                   IN IF first.ok THEN first ELSE re_match(h.b \o rest, text, pos, caps)
              [] h.k = "open" ->
                   re_match(rest, text, pos, [caps EXCEPT ![h.g] = <<pos, pos>>])
              [] h.k = "close" ->
                   re_match(rest, text, pos, [caps EXCEPT ![h.g] = <<@[1], pos>>])

\* the greedy repetition at the head of items taken n times, then fewer
re_repeat(items, text, pos, caps, n) ==
    IF n < Head(items).min THEN NoMatch
    ELSE LET taken == re_match(Tail(items), text, pos + n, caps)
         IN IF taken.ok THEN taken ELSE re_repeat(items, text, pos, caps, n - 1)

\* re.search(pattern, text[from:]): the leftmost match
RECURSIVE re_search(_, _, _)
re_search(items, text, from) ==
    IF from > Len(text) + 1 THEN NoMatch
    ELSE LET here == re_match(items, text, from, NoCaps)
         IN IF here.ok THEN [here EXCEPT !.start = from]
            ELSE re_search(items, text, from + 1)

\* match.group(g)
group(text, m, g) == SubSeq(text, m.caps[g][1], m.caps[g][2] - 1)

\* re.finditer(pattern, text): the matches from left to right, each search
\* starting where the last match ended
RECURSIVE re_finditer(_, _, _)
re_finditer(items, text, from) ==
    LET m == re_search(items, text, from)
    IN IF ~m.ok THEN <<>>
       ELSE <<m>> \o re_finditer(items, text, IF m.end > m.start THEN m.end ELSE m.end + 1)

Spaces == Set("space", 0, -1)

\* (-?\d+(?:\.\d+)?) as group g
Number(g) ==
    <<Open(g), Set("minus", 0, 1), Set("digit", 1, -1),
      Opt(<<Lit(<<".">>), Set("digit", 1, -1)>>), Close(g)>>

W_depth == <<"d","e","p","t","h">>
W_start == <<"s","t","a","r","t">>
W_from == <<"f","r","o","m">>
W_end == <<"e","n","d">>
W_to == <<"t","o">>

\* \s*[:=-]?\s*(-?\d+(?:\.\d+)?)
AssignedNumber == <<Spaces, Set("sep", 0, 1), Spaces>> \o Number(1)

\* _extract_depths: start_patterns
start_patterns ==
    << <<Alt(<<Lit(W_start)>>, <<Lit(W_from)>>), Spaces, Lit(W_depth)>> \o AssignedNumber,
       <<Lit(W_depth), Spaces, Lit(<<"(">> \o W_start \o <<")">>)>> \o AssignedNumber >>

\* _extract_depths: end_patterns
end_patterns ==
    << <<Alt(<<Lit(W_end)>>, <<Lit(W_to)>>), Spaces, Lit(W_depth)>> \o AssignedNumber,
       <<Lit(W_depth), Spaces, Lit(<<"(">> \o W_end \o <<")">>)>> \o AssignedNumber >>

\* _extract_depths: depth\s*[:=-]?\s*(num)\s*[-to]+\s*(num)
range_pattern ==
    <<Lit(W_depth)>> \o AssignedNumber
        \o <<Spaces, Set("dash_t_o", 1, -1), Spaces>> \o Number(2)

\* what match.group(1) of re.search gives for a pattern, None without match
first_group(text, pattern) ==
    LET m == re_search(pattern, text, 1)
    IN IF m.ok THEN StrVal(group(text, m, 1)) ELSE None

\* the same for each of two patterns
first_groups(text, patterns) ==
    <<first_group(text, patterns[1]), first_group(text, patterns[2])>>

\* the matches _extract_depths works with in a text
depth_matches(text) ==
    [starts |-> first_groups(text, start_patterns),
     ends |-> first_groups(text, end_patterns),
     range |-> LET m == re_search(range_pattern, text, 1)
               IN IF m.ok THEN <<StrVal(group(text, m, 1)), StrVal(group(text, m, 2))>>
                  ELSE <<>>]

-----------------------------------------------------------------------------
(* _extract_depths on texts (specification SpecDepths).                    *)

MaxDepthWords == 4

\* the pieces the texts are put together from
DepthWords ==
    {<<"S","t","a","r","t"," ","D","e","p","t","h",":"," ">>,
     <<"t","o"," ","d","e","p","t","h">>,
     <<"d","e","p","t","h"," ","(","s","t","a","r","t",")">>,
     <<"D","E","P","T","H"," ">>,
     <<"1","0">>,
     <<"-","2",".","5">>,
     <<" ","t","o"," ">>}

RECURSIVE Concat(_)
Concat(words) == IF words = <<>> THEN <<>> ELSE Head(words) \o Concat(Tail(words))

DepthTexts == {Concat(words) : words \in SeqsUpTo(DepthWords, MaxDepthWords)}

InitDepths ==
    /\ Quiet
    /\ dlisio_installed = TRUE
    /\ arg \in {[t |-> "text", chars |-> chars] : chars \in DepthTexts}
    /\ ret = None

\* _extract_depths(text) on the text arg
extract_depths_call ==
    /\ ret = None
    /\ LET depths == extract_depths(depth_matches(arg.chars))
       IN ret' = [t |-> "depths", depth_min |-> depths[1], depth_max |-> depths[2]]
    /\ UNCHANGED <<req, disk, dlisio_installed, store, tx, lock, arg>>

NextDepths == extract_depths_call

SpecDepths == InitDepths /\ [][NextDepths]_vars

\* the number captured by the first of the patterns that matches the text,
\* None when none of them matches
ExplicitDepth(text, patterns) ==
    LET first == first_group(text, patterns[1])
        second == first_group(text, patterns[2])
    IN IF first # None THEN PyFloat(first.s).value
       ELSE IF second # None THEN PyFloat(second.s).value
       ELSE None

\* C11: when an explicit start or end pattern matches, depth_min and
\* depth_max are what those patterns captured (None for the one without a
\* match) whatever the combined range pattern would find; when neither
\* matches and the range pattern does, depth_min is its first number and
\* depth_max its second, in that order; otherwise both are None.
C11_RangeOnlyWithoutExplicit ==
    (arg.t = "text" /\ ret.t = "depths") =>
       LET start == ExplicitDepth(arg.chars, start_patterns)
           end == ExplicitDepth(arg.chars, end_patterns)
           m == re_search(range_pattern, arg.chars, 1)
       IN IF start # None \/ end # None
          THEN ret.depth_min = start /\ ret.depth_max = end
          ELSE IF m.ok
          THEN /\ ret.depth_min = PyFloat(group(arg.chars, m, 1)).value
               /\ ret.depth_max = PyFloat(group(arg.chars, m, 2)).value
          ELSE ret.depth_min = None /\ ret.depth_max = None

\* "DEPTH 10-2.5" gave (10.0, 2.5), unswapped
C11_Witness ==
    /\ arg.t = "text" /\ ret.t = "depths"
    /\ Lower(arg.chars) = W_depth \o <<" ","1","0","-","2",".","5">>
    /\ ret.depth_min = FloatVal(10, 0) /\ ret.depth_max = FloatVal(25, 1)

-----------------------------------------------------------------------------
(* _extract_well_names on texts (specification SpecWells).                 *)

W_well == <<"w","e","l","l">>
W_name == <<"n","a","m","e">>

\* ([A-Za-z0-9_\-\s]{3,})
NameGroup == <<Open(1), Set("name", 3, -1), Close(1)>>

\* _extract_well_names: patterns
well_patterns ==
    << <<Lit(W_well), Opt(<<Set("space", 1, -1), Lit(W_name)>>), Spaces,
         Set("sep", 1, 1), Spaces>> \o NameGroup,
       <<Lit(W_name), Spaces, Set("sep", 1, 1), Spaces>> \o NameGroup
           \o <<Spaces, Lit(W_well)>> >>

\* re.finditer of one pattern: [pos, name] of each match, name its group(1)
well_finditer(text, pattern) ==
    LET found == re_finditer(pattern, text, 1)
    IN [i \in 1..Len(found) |->
           [pos |-> found[i].start, name |-> group(text, found[i], 1)]] @@ <<>>

\* the matches _extract_well_names works with in a text
well_matches(text) ==
    [wells1 |-> well_finditer(text, well_patterns[1]),
     wells2 |-> well_finditer(text, well_patterns[2])]

MaxWellWords == 4

\* the pieces the texts are put together from
WellWords ==
    {<<"W","e","l","l"," ","N","a","m","e",":"," ">>,
     <<"W","E","L","L",":"," ">>,
     <<"N","A","M","E",":"," ">>,
     <<"A","l","p","h","a","-","1",";">>,
     <<"A","L","P","H","A","-","1",";">>,
     <<"B","e","t">>,
     <<" "," "," ">>}

WellTexts == {Concat(words) : words \in SeqsUpTo(WellWords, MaxWellWords)}

InitWells ==
    /\ Quiet
    /\ dlisio_installed = TRUE
    /\ arg \in {[t |-> "text", chars |-> chars] : chars \in WellTexts}
    /\ ret = None

\* _load_with_heuristics, lines 139 and 148: _extract_well_names(text) or
\* ["Not found"], on the text arg
well_names_call ==
    /\ ret = None
    /\ LET well_names == extract_well_names(well_matches(arg.chars))
       IN ret' = [t |-> "wells",
                  well_names |-> IF well_names # <<>> THEN well_names ELSE <<NotFound>>]
    /\ UNCHANGED <<req, disk, dlisio_installed, store, tx, lock, arg>>

NextWells == well_names_call

SpecWells == InitWells /\ [][NextWells]_vars

\* two sequences of matches, each in order of position, as one
RECURSIVE MergeByPos(_, _)
MergeByPos(a, b) ==
    IF a = <<>> THEN b
    ELSE IF b = <<>> THEN a
    ELSE IF Head(a).pos <= Head(b).pos
    THEN <<Head(a)>> \o MergeByPos(Tail(a), b)
    ELSE <<Head(b)>> \o MergeByPos(a, Tail(b))

\* names without the entries that equal an earlier one ignoring case
FirstSpellings(names) ==
    LET kept == {i \in DOMAIN names : \A j \in 1..(i - 1) : Lower(names[j]) # Lower(names[i])}
        Pick[i \in 0..Len(names)] ==
            IF i = 0 THEN <<>>
            ELSE IF i \in kept THEN Append(Pick[i - 1], names[i]) ELSE Pick[i - 1]
    IN Pick[Len(names)]

\* the well names of a text as the matches of both patterns in order of
\* position, trimmed, without empty ones
NamesInTextOrder(text) ==
    LET found == well_matches(text)
        merged == MergeByPos(found.wells1, found.wells2)
        names == [i \in 1..Len(merged) |-> Strip(merged[i].name)]
    IN FirstSpellings(SelectSeq(names, LAMBDA n : n # <<>>))

\* C12: the heuristic well-name list is the matches of both patterns in
\* order of their position in the text, each name once (ignoring case) in
\* the spelling of its first occurrence, and ["Not found"] without a match.
C12_WellNamesInTextOrder ==
    (arg.t = "text" /\ ret.t = "wells") =>
       ret.well_names = IF NamesInTextOrder(arg.chars) # <<>>
                        THEN NamesInTextOrder(arg.chars) ELSE <<NotFound>>

-----------------------------------------------------------------------------
(* _first_non_null on rows (specification SpecAlias).                      *)

\* load_excel: the alias lists of the four semantic fields
AliasLists ==
    {<<H_company>>, <<H_field>>, <<H_well_name, H_well>>,
     <<H_formation, H_formation_name>>}

\* what a key of the row can hold: text, blank text, text to trim, the
\* empty string, a number, None, NaN
AliasValues ==
    {StrVal(N_X), StrVal(N_Blank), StrVal(<<" ">> \o N_W1 \o <<" ">>), StrVal(<<>>),
     IntVal(7), None, NaN}

\* the rows over the keys: each key absent or holding one of the values
AliasRows(keys) == UNION {[present -> AliasValues] : present \in SUBSET Range(keys)}

InitAlias ==
    /\ Quiet
    /\ dlisio_installed = TRUE
    /\ arg \in {[t |-> "row", row |-> row, keys |-> keys] :
                   keys \in AliasLists,
                   row \in UNION {AliasRows(k) : k \in AliasLists}}
    /\ DOMAIN arg.row \subseteq Range(arg.keys)
    /\ ret = None

\* _first_non_null(row, keys) on the row and alias list arg
first_non_null_call ==
    /\ ret = None
    /\ ret' = [t |-> "first_non_null", value |-> first_non_null(arg.row, arg.keys)]
    /\ UNCHANGED <<req, disk, dlisio_installed, store, tx, lock, arg>>

NextAlias == first_non_null_call

SpecAlias == InitAlias /\ [][NextAlias]_vars

\* a value an alias can be taken from: a non-blank string, or a non-string
\* that is neither None nor missing
Usable(v) ==
    \/ v.t = "str" /\ Strip(v.s) # <<>>
    \/ v.t \notin {"str", "none", "nan"}

\* C13: _first_non_null returns the value of the first alias, in alias
\* order, that holds a non-blank string (trimmed) or a non-null, non-missing
\* non-string (as a string); aliases holding a blank string are skipped;
\* the result is None when no alias holds such a value.
C13_FirstUsableAlias ==
    (arg.t = "row" /\ ret.t = "first_non_null") =>
       LET usable == {i \in DOMAIN arg.keys : Usable(DictGet(arg.row, arg.keys[i]))}
       IN IF usable = {} THEN ret.value = None
          ELSE LET v == DictGet(arg.row, arg.keys[CHOOSE i \in usable : \A j \in usable : i <= j])
               IN ret.value = StrVal(IF v.t = "str" THEN Strip(v.s) ELSE PyStr(v))

-----------------------------------------------------------------------------
(* normalize_header on header strings (specification SpecHeader).          *)

MaxHeaderLen == 4

HeaderChars == {"A", "b", " ", "\t", "_"}

Headers == SeqsUpTo(HeaderChars, MaxHeaderLen)

InitHeader ==
    /\ Quiet
    /\ dlisio_installed = TRUE
    /\ arg \in {[t |-> "header", header |-> header] : header \in Headers}
    /\ ret = None

\* normalize_header(header) on the header arg, and on its own result
normalize_header_call ==
    /\ ret = None
    /\ ret' = [t |-> "normalize_header",
               value |-> normalize_header(arg.header),
               again |-> normalize_header(normalize_header(arg.header))]
    /\ UNCHANGED <<req, disk, dlisio_installed, store, tx, lock, arg>>

NextHeader == normalize_header_call

SpecHeader == InitHeader /\ [][NextHeader]_vars

\* s with each run of whitespace characters replaced by one underscore
RECURSIVE UnderscoreRuns(_)
UnderscoreRuns(s) ==
    IF s = <<>> THEN <<>>
    ELSE IF IsSpace(Head(s)) THEN <<"_">> \o UnderscoreRuns(LStrip(s))
    ELSE <<Head(s)>> \o UnderscoreRuns(Tail(s))

\* C14: normalize_header returns the header lowercased, without leading
\* and trailing whitespace and with each internal run of whitespace replaced
\* by exactly one underscore, and returns that result unchanged when
\* applied to it.
C14_HeaderNormalForm ==
    (arg.t = "header" /\ ret.t = "normalize_header") =>
       /\ ret.value = UnderscoreRuns(Lower(Strip(arg.header)))
       /\ ret.again = ret.value

=============================================================================
